---- MODULE Spec2Model ----
(***************************************************************************)
(* Model of the Salesforce -> Logz.io collector.                           *)
(*                                                                         *)
(*   receiver : salesforce_logs_receiver.go  (SalesforceLogsReceiver)      *)
(*   collector: unnamed/part_003             (collect, main)               *)
(*                                                                         *)
(* Spec         the polling loop of main()/collect()                       *)
(* SpecCollect  one call of collect(), with one more log file server       *)
(* SpecLive     the polling loop in which every call of collect() returns  *)
(* SpecFetch    getFileContent applied to every scripted server            *)
(* SpecAssemble CollectSObjectRecord's event assembly applied to every     *)
(*              record / custom-field configuration                        *)
(* SpecFlatten  the flattening of getEventLogFileContent applied to every  *)
(*              log file of a header and a few data lines                  *)
(* SpecNew      NewSalesforceLogsReceiver applied to every configuration   *)
(*                                                                         *)
(* Modelling conventions                                                   *)
(*   - a timestamp string is [t |-> instant, zone |-> "+0000" | "Z"]       *)
(*   - a JSON object in memory is a function key -> value; its marshalled  *)
(*     bytes are the sequence of <<key, value>> pairs in Go's key order    *)
(*   - text (HTTP bodies, CSV cells, error messages) is a tuple of tokens  *)
(*   - record.Get(id) of the simpleforce client is taken to return the     *)
(*     record's fields; CollectSObjectRecord's error return is an outcome  *)
(*     of the environment                                                  *)
(*   - the goroutine of a type and the waitGroup.Wait() that follows its   *)
(*     start are one thread of control: FinishTask is the goroutine's      *)
(*     return together with the return of Wait                             *)
(*   - log is the history of the calls of the running cycle; a successful  *)
(*     login opens the history of the next cycle                           *)
(***************************************************************************)
EXTENDS Integers, Sequences, FiniteSets, TLC

\* ------------------------------------------------------------------ bounds
\* poll cycles explored
MaxCycles == 2
\* records of each object type held by the remote API
NumRecords == 2
\* distinct creation instants (1..MaxTime); the initial watermark is instant 0
MaxTime == 2
\* data rows of a log file given to the flattening
MaxRows == 2
\* newlines in a row between two lines of a log file
MaxNewlines == 2

\* ------------------------------------------------------- program constants
\* retry.Attempts(3)
Attempts == 3

EventLogFileSObjectName == "eventlogfile"

\* SOBJECT_TYPES as configured, in configuration order
SObjectTypes == <<"EventLogFile", "Account">>

NumTypes == Len(SObjectTypes)

TypeIdx == 1..NumTypes

RecIds == 1..NumRecords

Times == 1..MaxTime

\* --------------------------------------------------------------- sequences
RECURSIVE SeqMax(_)
\* maximum of a non-empty sequence of naturals
SeqMax(s) ==
    IF Len(s) = 1 THEN s[1]
    ELSE LET m == SeqMax(Tail(s)) IN IF s[1] >= m THEN s[1] ELSE m

\* all orderings of a finite set, as sequences
Orderings(S) ==
    {s \in [1..Cardinality(S) -> S] : \A i, j \in DOMAIN s : i # j => s[i] # s[j]}

\* -------------------------------------------------------------- timestamps
\* the format "2006-01-02T15:04:05.000Z" accepted by NewSalesforceLogsReceiver
InitialTimestamp == [t |-> 0, zone |-> "Z"]

\* CreatedDate as the remote API prints it: "...+0000"
RemoteCreatedDate(t) == [t |-> t, zone |-> "+0000"]

\* strings.Replace(createdDate, "+0000", "Z", 1)
ReplaceZone(ts) == [ts EXCEPT !.zone = IF @ = "+0000" THEN "Z" ELSE @]

\* variant: the query written with >=
QueryMatchesInclusive(created, latest) ==
    {id \in DOMAIN created : created[id] >= latest.t}

\* "WHERE CreatedDate > <LatestTimestamp>": the remote API compares instants
QueryMatches(created, latest) ==
    {id \in DOMAIN created : created[id] > latest.t}

\* strings.ToLower on the configured type names
ToLower(s) ==
    CASE s = "EventLogFile" -> "eventlogfile"
      [] s = "EVENTLOGFILE" -> "eventlogfile"
      [] s = "eventlogfile" -> "eventlogfile"
      [] s = "Account" -> "account"
      [] OTHER -> s

\* variant: the type name is compared as it is written
IsEventLogFileExact(sObjectType) == sObjectType = EventLogFileSObjectName

\* strings.ToLower(sObject.SObjectType) == receiver.EventLogFileSObjectName
IsEventLogFile(sObjectType) == ToLower(sObjectType) = EventLogFileSObjectName

\* -------------------------------------------------------------------- JSON
\* encoding/json writes the keys of a map in byte order
KeyOrder == <<"CreatedDate", "Id", "LogFile", "LogFileContent", "Name", "env", "team">>

RECURSIVE MarshalFrom(_, _)
MarshalFrom(m, i) ==
    IF i > Len(KeyOrder) THEN <<>>
    ELSE (IF KeyOrder[i] \in DOMAIN m
          THEN <<<<KeyOrder[i], m[KeyOrder[i]]>>>> ELSE <<>>)
         \o MarshalFrom(m, i + 1)

\* json.Marshal of a map[string]interface{}
Marshal(m) == MarshalFrom(m, 1)

\* json.Unmarshal into a map[string]interface{}: the last pair of a key wins
Unmarshal(bytes) ==
    [k \in {bytes[i][1] : i \in DOMAIN bytes} |->
        LET last == CHOOSE i \in DOMAIN bytes :
                        /\ bytes[i][1] = k
                        /\ \A j \in DOMAIN bytes : bytes[j][1] = k => j <= i
        IN  bytes[last][2]]

\* the fields record.Get(id) returns for a record of a type
RecordFields(sObjectType, id, t) ==
    IF IsEventLogFile(sObjectType)
    THEN [Id |-> <<"r", id>>, CreatedDate |-> RemoteCreatedDate(t),
          LogFile |-> <<"/LogFile/", id>>]
    ELSE [Id |-> <<"r", id>>, CreatedDate |-> RemoteCreatedDate(t),
          Name |-> <<"acme">>, env |-> <<"crm">>]

\* slr.customFields of the running receiver: CUSTOM_FIELDS unset, or "env:prod"
NoCustomFields == <<>>

EnvCustomFields == [env |-> <<"prod">>]

\* addCustomFields: with no custom fields the bytes are returned as they are;
\* otherwise the bytes are decoded, every key of the decoded map is assigned
\* its own value (the loop ranges over jsonMap), and the map is encoded again
addCustomFields(jsonData, customFields) ==
    IF DOMAIN customFields = {} THEN jsonData
    ELSE LET jsonMap == Unmarshal(jsonData)
             looped == [fieldKey \in DOMAIN jsonMap |-> jsonMap[fieldKey]]
         IN  Marshal(looped)

\* CollectSObjectRecord on success: the event bytes and the converted CreatedDate
CollectSObjectRecord(fields, customFields) ==
    [jsonData |-> addCustomFields(Marshal(fields), customFields),
     createdDate |-> ReplaceZone(fields.CreatedDate)]

\* addEventLogToJsonData: decode, set "LogFileContent", encode
addEventLogToJsonData(eventLog, jsonData) ==
    LET jsonMap == Unmarshal(jsonData)
        withLog == [k \in DOMAIN jsonMap \cup {"LogFileContent"} |->
                       IF k = "LogFileContent" THEN eventLog ELSE jsonMap[k]]
    IN  Marshal(withLog)

\* --------------------------------------------------------------------- CSV
NL == "\n"

RECURSIVE ReplaceDoubleNewlines(_)
\* strings.Replace(content, "\n\n", "\n", -1): left to right, non-overlapping
ReplaceDoubleNewlines(s) ==
    IF s = <<>> THEN <<>>
    ELSE IF Len(s) >= 2 /\ s[1] = NL /\ s[2] = NL
         THEN <<NL>> \o ReplaceDoubleNewlines(SubSeq(s, 3, Len(s)))
         ELSE <<s[1]>> \o ReplaceDoubleNewlines(Tail(s))

RECURSIVE SplitOn(_, _)
\* the pieces of s between occurrences of sep (always at least one piece)
SplitOn(s, sep) ==
    IF \A i \in DOMAIN s : s[i] # sep THEN <<s>>
    ELSE LET p == CHOOSE i \in DOMAIN s :
                      s[i] = sep /\ \A j \in 1..(i - 1) : s[j] # sep
         IN  <<SubSeq(s, 1, p - 1)>> \o SplitOn(SubSeq(s, p + 1, Len(s)), sep)

\* variant: a reader that keeps empty lines as records
AllLines(s) == SplitOn(s, NL)

\* the reader skips empty lines
NonEmptyLines(s) == SelectSeq(SplitOn(s, NL), LAMBDA l : l # <<>>)

QUOTE == "\""

\* a field of the reader without LazyQuotes: a bare quote is an error, a quoted
\* field must be closed (quoted fields holding separators or doubled quotes
\* are not among the modelled inputs)
FieldOk(f) ==
    \/ \A i \in DOMAIN f : f[i] # QUOTE
    \/ /\ Len(f) >= 2
       /\ f[1] = QUOTE
       /\ f[Len(f)] = QUOTE
       /\ \A i \in 2..(Len(f) - 1) : f[i] # QUOTE

FieldValue(f) ==
    IF f # <<>> /\ f[1] = QUOTE THEN SubSeq(f, 2, Len(f) - 1) ELSE f

\* csv.NewReader(...).ReadAll() with FieldsPerRecord = 0: every record must
\* have as many fields as the first one
ReadAll(s) ==
    LET lines == NonEmptyLines(s)
        raw == [i \in DOMAIN lines |-> SplitOn(lines[i], ",")]
        bad == \/ \E i \in DOMAIN raw : \E j \in DOMAIN raw[i] : ~FieldOk(raw[i][j])
               \/ \E i \in DOMAIN raw : Len(raw[i]) # Len(raw[1])
    IN  IF bad THEN [err |-> TRUE, csvData |-> <<>>]
        ELSE [err |-> FALSE,
              csvData |-> [i \in DOMAIN raw |->
                              [j \in DOMAIN raw[i] |-> FieldValue(raw[i][j])]]]

\* one map per row: key csvData[0][fieldIndex], value the field; a later
\* column of the same name overwrites an earlier one
LogEvent(header, row) ==
    [key \in {header[i] : i \in DOMAIN row} |->
        row[CHOOSE i \in DOMAIN row :
                /\ header[i] = key
                /\ \A j \in DOMAIN row : header[j] = key => j <= i]]

\* variant: the loop without "if rowIndex == 0 { continue }"
LogEventsWithHeader(csvData) ==
    [r \in 1..Len(csvData) |-> LogEvent(csvData[1], csvData[r])]

\* the loop of getEventLogFileContent over csvData: row 0 is skipped
LogEvents(csvData) ==
    [r \in 1..(Len(csvData) - 1) |-> LogEvent(csvData[1], csvData[r + 1])]

\* getEventLogFileContent once the file content is there
ParseLogFileContent(logFileContent) ==
    LET parsed == ReadAll(ReplaceDoubleNewlines(logFileContent))
    IN  IF parsed.err THEN [err |-> TRUE, logEvents |-> <<>>]
        ELSE [err |-> FALSE,
              logEvents |-> IF parsed.csvData = <<>> THEN <<>>
                            ELSE LogEvents(parsed.csvData)]

\* ------------------------------------------------------------ log-file HTTP
\* log files the server may hold
BodyTwoRows == <<"a", ",", "b", NL, "1", ",", "2", NL, NL, "3", ",", "4", NL>>

BodyOneRow == <<"a", ",", "b", NL, "1", ",", "2", NL>>

BodyHeaderOnly == <<"a", ",", "b", NL>>

BodyEmpty == <<>>

BodyShortRow == <<"a", ",", "b", NL, "1", NL>>

BodyBadQuote == <<"a", NL, QUOTE, "x", NL>>

\* bodies of error answers
BodyNotFound == <<"Not Found">>

BodyEcho == <<"statuscode: ", "5", "0", "0">>

Digits == <<"0", "1", "2", "3", "4", "5", "6", "7", "8", "9">>

DigitSet == {Digits[i] : i \in DOMAIN Digits}

\* what httpClient.Do gives for one attempt; status 0 stands for a transport
\* error (no response), readOk for io.ReadAll(resp.Body) succeeding
Response(status, body, readOk) == [status |-> status, body |-> body, readOk |-> readOk]

TransportError == Response(0, <<>>, FALSE)

\* the error of one attempt, as text, or <<>> for none:
\* fmt.Errorf("ERROR: statuscode: %d, body: %s", resp.StatusCode, buf.String())
AttemptError(resp) ==
    IF resp.status = 0 THEN <<"Get ", "url", ": ", "connection refused">>
    ELSE IF resp.status < 200 \/ resp.status > 299
         THEN <<"ERROR: ", "statuscode: ",
                Digits[(resp.status \div 100) + 1],
                Digits[((resp.status \div 10) % 10) + 1],
                Digits[(resp.status % 10) + 1],
                ", body: ">> \o resp.body
         ELSE <<>>

\* variant: a pattern that matches no error
RetryIfNever(errText) == FALSE

\* regexp.MatchString("statuscode: 5[0-9]{2}", err.Error())
RetryIf(errText) ==
    \E i \in 1..(Len(errText) - 3) :
        /\ errText[i] = "statuscode: "
        /\ errText[i + 1] = "5"
        /\ errText[i + 2] \in DigitSet
        /\ errText[i + 3] \in DigitSet

RECURSIVE RetryDo(_, _, _)
\* retry.Do(..., retry.RetryIf(...), retry.Attempts(3)): script[n + 1] is the
\* server's answer to attempt n + 1; errs collects the errors of the attempts
RetryDo(script, n, errs) ==
    LET resp == script[n + 1]
        e == AttemptError(resp)
    IN  IF e = <<>> THEN [err |-> FALSE, resp |-> resp, attempts |-> n + 1, errs |-> errs]
        ELSE IF ~RetryIf(e) \/ n = Attempts - 1
             THEN [err |-> TRUE, resp |-> resp, attempts |-> n + 1,
                   errs |-> Append(errs, e)]
             ELSE RetryDo(script, n + 1, Append(errs, e))

\* getFileContent against a server that answers the attempts as scripted
getFileContent(script) ==
    LET r == RetryDo(script, 0, <<>>)
    IN  IF r.err
        THEN [err |-> TRUE, content |-> <<>>, attempts |-> r.attempts, errs |-> r.errs]
        ELSE IF ~r.resp.readOk
             THEN [err |-> TRUE, content |-> <<>>, attempts |-> r.attempts,
                   errs |-> <<<<"unexpected EOF">>>>]
             ELSE [err |-> FALSE, content |-> r.resp.body, attempts |-> r.attempts,
                   errs |-> <<>>]

\* getEventLogFileContent: fetch the log file, flatten it
getEventLogFileContent(script) ==
    LET file == getFileContent(script)
        rows == ParseLogFileContent(file.content)
    IN  [err |-> file.err \/ rows.err,
         logEvents |-> IF file.err \/ rows.err THEN <<>> ELSE rows.logEvents,
         attempts |-> file.attempts,
         content |-> file.content]

\* EnrichEventLogFileSObjectData, given what getEventLogFileContent returned:
\* one event per row
EnrichEventLogFileSObjectData(eventLogRows, jsonData) ==
    IF eventLogRows.err
    THEN [err |-> TRUE, jsonsData |-> <<>>, attempts |-> eventLogRows.attempts,
          content |-> eventLogRows.content]
    ELSE [err |-> FALSE,
          content |-> eventLogRows.content,
          jsonsData |-> [i \in DOMAIN eventLogRows.logEvents |->
                            addEventLogToJsonData(eventLogRows.logEvents[i], jsonData)],
          attempts |-> eventLogRows.attempts]

\* ------------------------------------------------------- the polling loop
\* what the log-file server answers in the loop: a file with two rows, a 503
\* twice before a file with the header only, a 503 every time, a 404, and a
\* file with a short row
LoopScripts ==
    { <<Response(200, BodyTwoRows, TRUE), TransportError, TransportError>>,
      <<Response(503, BodyNotFound, TRUE), Response(503, BodyNotFound, TRUE),
        Response(200, BodyHeaderOnly, TRUE)>>,
      <<Response(503, BodyNotFound, TRUE), Response(503, BodyNotFound, TRUE),
        Response(503, BodyNotFound, TRUE)>>,
      <<Response(404, BodyNotFound, TRUE), TransportError, TransportError>>,
      <<Response(200, BodyShortRow, TRUE), TransportError, TransportError>> }

\* the same servers and one that answers with an empty file
CollectScripts ==
    LoopScripts \cup { <<Response(200, BodyEmpty, TRUE), TransportError, TransportError>> }

\* what getEventLogFileContent returns for each of these servers
LoopLogFiles == [script \in CollectScripts |-> getEventLogFileContent(script)]

\* the records the remote API holds of each configured type: ids in creation
\* order, ties allowed, the creation instants numbered 1, 2, ... without gaps
\* (the order in which a query returns the records is chosen by the query)
RemoteTables ==
    {f \in [RecIds -> Times] :
        /\ f[1] = 1
        /\ \A i \in RecIds : i > 1 => (f[i] = f[i - 1] \/ f[i] = f[i - 1] + 1)}

VARIABLES
    \* SalesforceLogsReceiver
    LatestTimestamp,   \* SObjects[i].LatestTimestamp
    customFields,      \* slr.customFields
    \* the remote API
    sfCreated,         \* sfCreated[id]: creation instant of record id (of each type)
    \* main() and collect()
    pc,                \* "query" "record" "enrich" "send" "stop" "sleep" "login" "panic"
    cycle,             \* number of the running cycle
    ti,                \* index of the object type whose task runs
    records,           \* the task's batch (record ids in the order returned)
    ri,                \* index in records of the record being processed
    jsonsData,         \* the events of the record being processed
    ei,                \* index in jsonsData of the event to send next
    createdDate,       \* *createdDate of the record being processed
    \* history of the running cycle
    log,               \* the external calls made, in order
    batch,             \* batch[i]: what the query of type i returned
    task,              \* task[i]: "pending" "queryerr" "empty" "running" "complete" "failed"
    wmStart,           \* wmStart[i]: LatestTimestamp[i] when the cycle began
    wmIdx,             \* wmIdx[i]: index in batch[i] of the record that last set it
    \* history across cycles
    unsent,            \* unsent[i]: id of the record of type i of which a Send after
                       \* the first failed, until a query of the type is answered
    \* argument and result of the function specifications
    arg,
    res

vars == <<LatestTimestamp, customFields, sfCreated, pc, cycle, ti, records, ri,
          jsonsData, ei, createdDate, log, batch, task, wmStart, wmIdx, unsent,
          arg, res>>

loopVars == <<LatestTimestamp, customFields, sfCreated, pc, cycle, ti, records, ri,
              jsonsData, ei, createdDate, log, batch, task, wmStart, wmIdx, unsent>>

LogEntry(op, idx, ok, n, data) ==
    [op |-> op, ty |-> ti, idx |-> idx, ok |-> ok, n |-> n, data |-> data]

\* a call made by main() or by collect() outside the tasks
MainEntry(op, ok) ==
    [op |-> op, ty |-> 0, idx |-> 0, ok |-> ok, n |-> 0, data |-> <<>>]

\* createSalesforceReceiver, NewSalesforceLogsReceiver and the first login:
\* every target starts at FROM_TIMESTAMP
LoopInit ==
    /\ LatestTimestamp = [i \in TypeIdx |-> InitialTimestamp]
    /\ \/ customFields = NoCustomFields
       \/ customFields = EnvCustomFields
    /\ sfCreated \in RemoteTables
    /\ pc = "query"
    /\ cycle = 1
    /\ ti = 1
    /\ records = <<>>
    /\ ri = 0
    /\ jsonsData = <<>>
    /\ ei = 0
    /\ createdDate = InitialTimestamp
    /\ log = <<>>
    /\ batch = [i \in TypeIdx |-> <<>>]
    /\ task = [i \in TypeIdx |-> "pending"]
    /\ wmStart = [i \in TypeIdx |-> InitialTimestamp]
    /\ wmIdx = [i \in TypeIdx |-> 0]
    /\ unsent = [i \in TypeIdx |-> 0]

\* the function specifications' result before the function is applied
NoResult == [done |-> FALSE, out |-> <<>>]

Init ==
    /\ LoopInit
    /\ arg = <<>>
    /\ res = NoResult

\* variant: a failed query ends the cycle's loop over the types
FinishTaskAbortsCycle(status) ==
    /\ task' = [task EXCEPT ![ti] = status]
    /\ pc' = IF ti < NumTypes /\ status # "queryerr" THEN "query" ELSE "stop"
    /\ ti' = IF ti < NumTypes /\ status # "queryerr" THEN ti + 1 ELSE ti
    /\ records' = <<>>
    /\ ri' = 0
    /\ jsonsData' = <<>>
    /\ ei' = 0
    /\ createdDate' = InitialTimestamp

\* variant: the loop goes on to the next type while the goroutine still runs
FinishTaskNoWait(status) ==
    /\ task' = task
    /\ pc' = IF ti < NumTypes THEN "query" ELSE "stop"
    /\ ti' = IF ti < NumTypes THEN ti + 1 ELSE ti
    /\ records' = <<>>
    /\ ri' = 0
    /\ jsonsData' = <<>>
    /\ ei' = 0
    /\ createdDate' = InitialTimestamp

\* variant: collect returns after the last task without shipper.Stop()
FinishTaskSkipsStop(status) ==
    /\ task' = [task EXCEPT ![ti] = status]
    /\ pc' = IF ti < NumTypes THEN "query" ELSE "sleep"
    /\ ti' = IF ti < NumTypes THEN ti + 1 ELSE ti
    /\ records' = <<>>
    /\ ri' = 0
    /\ jsonsData' = <<>>
    /\ ei' = 0
    /\ createdDate' = InitialTimestamp

\* the goroutine of a type returns: waitGroup.Wait() lets the loop go on to
\* the next type, or to shipper.Stop() after the last one
FinishTask(status) ==
    /\ task' = [task EXCEPT ![ti] = status]
    /\ pc' = IF ti < NumTypes THEN "query" ELSE "stop"
    /\ ti' = IF ti < NumTypes THEN ti + 1 ELSE ti
    /\ records' = <<>>
    /\ ri' = 0
    /\ jsonsData' = <<>>
    /\ ei' = 0
    /\ createdDate' = InitialTimestamp

\* variant: the result of sendDataToLogzio is not looked at
ContinueAfterSendAlways(sent) == TRUE

\* variant: the test of the result is inverted
ContinueAfterSendInverted(sent) == ~sent

\* if !sfc.sendDataToLogzio(...) { return }
ContinueAfterSend(sent) == sent

\* variant: the errors of the record loop are logged and not returned on
ReturnOnErrorNever(failed) == FALSE

\* if err != nil { errorLogger.Println(...); return }
ReturnOnError(failed) == failed

\* variant: the watermark is left as it is
AdvanceWatermarkNever(latest, created) == latest

\* sObject.LatestTimestamp = *createdDate
AdvanceWatermark(latest, created) == created

\* variant: the record loop takes the same record again
RecordDoneRepeats ==
    /\ LatestTimestamp' =
           [LatestTimestamp EXCEPT ![ti] = AdvanceWatermark(@, createdDate)]
    /\ wmIdx' = [wmIdx EXCEPT ![ti] = ri]
    /\ IF ri < Len(records)
       THEN /\ ri' = ri
            /\ pc' = "record"
            /\ jsonsData' = <<>>
            /\ ei' = 0
            /\ createdDate' = InitialTimestamp
            /\ UNCHANGED <<ti, records, task>>
       ELSE FinishTask("complete")

\* the end of the loop body for a record whose events were all sent, and the
\* step to the next record of the batch
RecordDone ==
    /\ LatestTimestamp' =
           [LatestTimestamp EXCEPT ![ti] = AdvanceWatermark(@, createdDate)]
    /\ wmIdx' = [wmIdx EXCEPT ![ti] = ri]
    /\ IF ri < Len(records)
       THEN /\ ri' = ri + 1
            /\ pc' = "record"
            /\ jsonsData' = <<>>
            /\ ei' = 0
            /\ createdDate' = InitialTimestamp
            /\ UNCHANGED <<ti, records, task>>
       ELSE FinishTask("complete")

\* GetSObjectRecords, called first by the task of type ti
GetSObjectRecords ==
    /\ pc = "query"
    /\ \/ /\ log' = Append(log, LogEntry("query", 0, FALSE, 0, <<>>))
          /\ FinishTask("queryerr")
          /\ UNCHANGED <<batch, unsent>>
       \/ \E result \in Orderings(QueryMatches(sfCreated, LatestTimestamp[ti])) :
             /\ log' = Append(log, LogEntry("query", 0, TRUE, Len(result), <<>>))
             /\ batch' = [batch EXCEPT ![ti] = result]
             /\ unsent' = [unsent EXCEPT ![ti] = 0]
             /\ IF result = <<>>
                THEN FinishTask("empty")
                ELSE /\ records' = result
                     /\ ri' = 1
                     /\ pc' = "record"
                     /\ task' = [task EXCEPT ![ti] = "running"]
                     /\ UNCHANGED <<ti, jsonsData, ei, createdDate>>
    /\ UNCHANGED <<LatestTimestamp, customFields, sfCreated, cycle, wmStart, wmIdx,
                   arg, res>>

\* sfc.receiver.CollectSObjectRecord(&record) for records[ri]
CollectRecord ==
    /\ pc = "record"
    /\ \E ok \in BOOLEAN :
          /\ log' = Append(log, LogEntry("get", ri, ok, 0, <<>>))
          /\ IF ReturnOnError(~ok)
             THEN FinishTask("failed")
             ELSE LET id == records[ri]
                      c == CollectSObjectRecord(
                               RecordFields(SObjectTypes[ti], id, sfCreated[id]),
                               customFields)
                  IN  /\ jsonsData' = <<c.jsonData>>
                      /\ createdDate' = c.createdDate
                      /\ IF IsEventLogFile(SObjectTypes[ti])
                         THEN pc' = "enrich" /\ ei' = 0
                         ELSE pc' = "send" /\ ei' = 1
                      /\ UNCHANGED <<ti, records, ri, task>>
    /\ UNCHANGED <<LatestTimestamp, customFields, sfCreated, cycle, batch, wmStart,
                   wmIdx, unsent, arg, res>>

\* sfc.receiver.EnrichEventLogFileSObjectData(&record, data)
EnrichRecordFrom(servers) ==
    /\ pc = "enrich"
    /\ \E script \in servers :
          LET r == EnrichEventLogFileSObjectData(LoopLogFiles[script], jsonsData[1])
          IN  /\ log' = Append(log, LogEntry("fetch", ri, ~r.err, r.attempts, r.content))
              /\ IF ReturnOnError(r.err)
                 THEN /\ FinishTask("failed")
                      /\ UNCHANGED <<LatestTimestamp, wmIdx>>
                 ELSE IF r.jsonsData = <<>>
                      THEN RecordDone
                      ELSE /\ jsonsData' = r.jsonsData
                           /\ ei' = 1
                           /\ pc' = "send"
                           /\ UNCHANGED <<LatestTimestamp, wmIdx, ti, records, ri,
                                          createdDate, task>>
    /\ UNCHANGED <<customFields, sfCreated, cycle, batch, wmStart, unsent, arg, res>>

EnrichRecord == EnrichRecordFrom(LoopScripts)

\* sfc.sendDataToLogzio(data, ...) for jsonsData[ei]
SendData ==
    /\ pc = "send"
    /\ \E sent \in BOOLEAN :
          /\ log' = Append(log, LogEntry("send", ri, sent, ei, jsonsData[ei]))
          /\ unsent' = IF ~sent /\ ei > 1
                        THEN [unsent EXCEPT ![ti] = records[ri]]
                        ELSE unsent
          /\ IF ~ContinueAfterSend(sent)
             THEN /\ FinishTask("failed")
                  /\ UNCHANGED <<LatestTimestamp, wmIdx>>
             ELSE IF ei < Len(jsonsData)
                  THEN /\ ei' = ei + 1
                       /\ UNCHANGED <<LatestTimestamp, wmIdx, pc, ti, records, ri,
                                      jsonsData, createdDate, task>>
                  ELSE RecordDone
    /\ UNCHANGED <<customFields, sfCreated, cycle, batch, wmStart, arg, res>>

\* sfc.shipper.Stop()
Stop ==
    /\ pc = "stop"
    /\ log' = Append(log, MainEntry("stop", TRUE))
    /\ pc' = "sleep"
    /\ UNCHANGED <<LatestTimestamp, customFields, sfCreated, cycle, ti, records, ri,
                   jsonsData, ei, createdDate, batch, task, wmStart, wmIdx,
                   unsent, arg, res>>

\* time.Sleep(interval)
Sleep ==
    /\ pc = "sleep"
    /\ cycle < MaxCycles
    /\ pc' = "login"
    /\ log' = Append(log, MainEntry("sleep", TRUE))
    /\ UNCHANGED <<LatestTimestamp, customFields, sfCreated, cycle, ti, records, ri,
                   jsonsData, ei, createdDate, batch, task, wmStart,
                   wmIdx, unsent, arg, res>>

\* variant: the error of the login is not looked at
PanicOnErrorNever(failed) == FALSE

\* if err = collector.receiver.LoginSalesforce(); err != nil { panic(...) }
PanicOnError(failed) == failed

\* collector.receiver.LoginSalesforce(); an error panics, otherwise the next
\* cycle begins (its history starts with the login)
LoginSalesforce ==
    /\ pc = "login"
    /\ \E ok \in BOOLEAN :
          IF ~PanicOnError(~ok)
          THEN /\ pc' = "query"
               /\ cycle' = cycle + 1
               /\ ti' = 1
               /\ log' = <<MainEntry("login", ok)>>
               /\ batch' = [i \in TypeIdx |-> <<>>]
               /\ task' = [i \in TypeIdx |-> "pending"]
               /\ wmStart' = LatestTimestamp
               /\ wmIdx' = [i \in TypeIdx |-> 0]
          ELSE /\ pc' = "panic"
               /\ log' = Append(log, MainEntry("login", ok))
               /\ UNCHANGED <<cycle, ti, batch, task, wmStart, wmIdx>>
    /\ UNCHANGED <<LatestTimestamp, customFields, sfCreated, records, ri, jsonsData,
                   ei, createdDate, unsent, arg, res>>

Next ==
    \/ GetSObjectRecords
    \/ CollectRecord
    \/ EnrichRecord
    \/ SendData
    \/ Stop
    \/ Sleep
    \/ LoginSalesforce

Spec == Init /\ [][Next]_vars

\* One call of collect(), the log file servers of CollectScripts: the first
\* cycle up to the Stop() that ends it.
EnrichAnyFile == EnrichRecordFrom(CollectScripts)

NextCollect ==
    \/ GetSObjectRecords
    \/ CollectRecord
    \/ EnrichAnyFile
    \/ SendData
    \/ Stop

SpecCollect == Init /\ [][NextCollect]_vars

\* The polling loop in which every call made by collect() returns: the query,
\* the record fetch, the log-file fetch with its retries, Send and Stop.
collect == GetSObjectRecords \/ CollectRecord \/ EnrichRecord \/ SendData \/ Stop

SpecLive == Spec /\ WF_vars(collect)

\* ------------------------------------------------- reading the cycle's log
\* the entries of the log, in order, of one kind for one record of one type
Calls(op, i, k) ==
    SelectSeq(log, LAMBDA e : e.op = op /\ e.ty = i /\ e.idx = k)

\* the creation timestamp of the k-th record of type i's batch, as the
\* watermark holds it
CreatedOf(i, k) == [t |-> sfCreated[batch[i][k]], zone |-> "Z"]

\* the rows of the modelled log files, written out by hand
ExpectedRows(content) ==
    CASE content = BodyTwoRows ->
             << (<<"a">> :> <<"1">> @@ <<"b">> :> <<"2">>),
                (<<"a">> :> <<"3">> @@ <<"b">> :> <<"4">>) >>
      [] content = BodyOneRow -> << (<<"a">> :> <<"1">> @@ <<"b">> :> <<"2">>) >>
      [] OTHER -> <<>>

\* how many events a record has whose log-file fetches are the entries
\* fetches: one, or one per row of the log file that was fetched for it
EventCount(i, fetches) ==
    IF IsEventLogFile(SObjectTypes[i]) THEN Len(ExpectedRows(fetches[1].data)) ELSE 1

\* every event of the k-th record of type i's batch was handed to Send, and
\* every Send of the record returned success
Delivered(i, k) ==
    LET sends == Calls("send", i, k)
        fetches == Calls("fetch", i, k)
        gets == Calls("get", i, k)
    IN  /\ \A j \in DOMAIN sends : sends[j].ok
        /\ IsEventLogFile(SObjectTypes[i]) => (fetches # <<>> /\ fetches[1].ok)
        /\ gets # <<>>
        /\ gets[1].ok
        /\ Len(sends) = EventCount(i, fetches)

\* C1: the watermark of every type is the value it had when the cycle began
\* (the initial value, or what an earlier cycle left), or the creation
\* timestamp of a record of the cycle's batch whose events were all sent with
\* success; no record with a failed or unattempted event has set it.
C1_WatermarkOnlyFromDelivered ==
    \A i \in TypeIdx :
        /\ \/ wmStart[i] = InitialTimestamp
           \/ \E id \in RecIds : wmStart[i] = [t |-> sfCreated[id], zone |-> "Z"]
        /\ IF wmIdx[i] = 0
           THEN LatestTimestamp[i] = wmStart[i]
           ELSE /\ wmIdx[i] \in DOMAIN batch[i]
                /\ LatestTimestamp[i] = CreatedOf(i, wmIdx[i])
                /\ Delivered(i, wmIdx[i])

\* a log-bearing record with two events has set the watermark of its type
C1_Witness ==
    \E i \in TypeIdx :
        /\ wmIdx[i] > 0
        /\ IsEventLogFile(SObjectTypes[i])
        /\ Len(Calls("send", i, wmIdx[i])) = 2
        /\ LatestTimestamp[i] # wmStart[i]

\* C2: no step replaces a watermark by an earlier timestamp.
C2_WatermarkMonotonic ==
    [][\A i \in TypeIdx : LatestTimestamp'[i].t >= LatestTimestamp[i].t]_vars

\* C3: when every record of a batch was processed and delivered, the
\* watermark is the maximum creation timestamp of the batch.
C3_WatermarkIsBatchMaximum ==
    \A i \in TypeIdx :
        task[i] = "complete" =>
            LatestTimestamp[i].t = SeqMax([k \in DOMAIN batch[i] |-> sfCreated[batch[i][k]]])

\* the first index k such that a Send of the k-th record of type i failed
FailedSendAt(i, k) ==
    \E j \in DOMAIN log :
        log[j].op = "send" /\ log[j].ty = i /\ log[j].idx = k /\ ~log[j].ok

\* C4: once a Send of the k-th record of a type has failed, the cycle makes
\* no record fetch, log-file fetch or Send for a later record of the type and
\* no further Send for record k, and the watermark is the creation timestamp
\* of record k-1, set by that record (its value at the start of the cycle
\* when k = 1).
C4_SendFailureStopsType ==
    \A i \in TypeIdx :
        LET calls == SelectSeq(log, LAMBDA e : e.ty = i /\ e.op \in {"get", "fetch", "send"})
        IN  \A j \in DOMAIN calls :
                (calls[j].op = "send" /\ ~calls[j].ok) =>
                    LET k == calls[j].idx
                    IN  /\ j = Len(calls)
                        /\ \A h \in DOMAIN calls : calls[h].idx <= k
                        /\ wmIdx[i] = k - 1
                        /\ LatestTimestamp[i] =
                               IF k = 1 THEN wmStart[i] ELSE CreatedOf(i, k - 1)

\* the cycle is over and a Send of the second record of a batch had failed
\* after the first record was delivered
C4_Witness ==
    /\ pc = "sleep"
    /\ \E i \in TypeIdx :
          /\ Len(batch[i]) >= 2
          /\ FailedSendAt(i, 2)
          /\ LatestTimestamp[i] = CreatedOf(i, 1)

\* C5: after a cycle, every fetched record that was not fully delivered is
\* strictly later than the watermark of its type, so the next query returns it.
C5_UndeliveredStayAhead ==
    pc = "sleep" =>
        \A i \in TypeIdx : \A k \in DOMAIN batch[i] :
            ~Delivered(i, k) => sfCreated[batch[i][k]] > LatestTimestamp[i].t

\* the query of type i in this cycle returned no record
EmptyFetch(i) ==
    \E j \in DOMAIN log :
        log[j].op = "query" /\ log[j].ty = i /\ log[j].ok /\ log[j].n = 0

\* C6: a type with no record later than its watermark gets an empty (not a
\* failed) answer when its query is answered, and a type whose fetch returned
\* no record gets no record fetch, no log-file fetch and no Send in the cycle
\* and keeps its watermark.
C6_EmptyFetchIsQuiet ==
    \A i \in TypeIdx :
        /\ ( /\ \A id \in RecIds : sfCreated[id] <= wmStart[i].t
             /\ \E j \in DOMAIN log : log[j].op = "query" /\ log[j].ty = i /\ log[j].ok )
           => EmptyFetch(i)
        /\ EmptyFetch(i) =>
               /\ \A j \in DOMAIN log :
                      log[j].ty = i => log[j].op \notin {"get", "fetch", "send"}
               /\ LatestTimestamp[i] = wmStart[i]
               /\ batch[i] = <<>>

\* a cycle has ended in which the fetch of a type returned nothing
C6_Witness ==
    /\ pc = "sleep"
    /\ \E i \in TypeIdx : EmptyFetch(i) /\ task[i] = "empty"

\* the events a log-bearing record must produce: the record's fields plus
\* LogFileContent holding one row, in row order
ExpectedEvents(i, k, content) ==
    LET id == batch[i][k]
        base == RecordFields(SObjectTypes[i], id, sfCreated[id])
        rows == ExpectedRows(content)
    IN  [r \in DOMAIN rows |->
            [key \in DOMAIN base \cup {"LogFileContent"} |->
                IF key = "LogFileContent" THEN rows[r] ELSE base[key]]]

\* C7: for a log-bearing record whose log file was fetched and has N data
\* rows, the Sends made for the record carry, in row order, the record's
\* fields plus LogFileContent holding one row keyed by the header; once the
\* record is done (all Sends succeeded) there are exactly N of them, none
\* for N = 0.
C7_OneEventPerRow ==
    \A i \in TypeIdx : \A k \in DOMAIN batch[i] :
        LET fetches == Calls("fetch", i, k)
        IN  (IsEventLogFile(SObjectTypes[i]) /\ fetches # <<>> /\ fetches[1].ok) =>
                LET expected == ExpectedEvents(i, k, fetches[1].data)
                    sends == Calls("send", i, k)
                IN  /\ Len(sends) <= Len(expected)
                    /\ \A r \in DOMAIN sends : Unmarshal(sends[r].data) = expected[r]
                    /\ wmIdx[i] >= k =>
                           /\ Len(sends) = Len(expected)
                           /\ \A r \in DOMAIN sends : sends[r].ok

\* a record with a two-row log file is done and both rows were sent
C7_Witness ==
    \E i \in TypeIdx : \E k \in DOMAIN batch[i] :
        /\ IsEventLogFile(SObjectTypes[i])
        /\ Calls("fetch", i, k) # <<>>
        /\ Calls("fetch", i, k)[1].data = BodyTwoRows
        /\ wmIdx[i] = k
        /\ Len(Calls("send", i, k)) = 2
        /\ Calls("send", i, k)[1].data # Calls("send", i, k)[2].data

\* the entries of the log for type i of the kinds in ops
TypeCalls(i, ops) == SelectSeq(log, LAMBDA e : e.ty = i /\ e.op \in ops)

\* the loop over the types has gone past type i in this cycle
TaskOver(i) == ti > i \/ pc \in {"stop", "sleep", "login", "panic"}

\* C11: a type whose query failed keeps its watermark and gets no record
\* fetch, log-file fetch or Send in the cycle, its query is made once, and the
\* loop goes on: every other type is queried once in the cycle, its query is
\* answered from its own watermark, and it is not left pending.
C11_QueryFailureIsolated ==
    \A i \in TypeIdx :
        task[i] = "queryerr" =>
            /\ LatestTimestamp[i] = wmStart[i]
            /\ TypeCalls(i, {"get", "fetch", "send"}) = <<>>
            /\ Len(TypeCalls(i, {"query"})) = 1
            /\ TaskOver(i)
            /\ \A j \in TypeIdx \ {i} :
                   LET q == TypeCalls(j, {"query"})
                   IN  /\ (TaskOver(j) \/ (ti = j /\ pc # "query")) <=> Len(q) = 1
                       /\ Len(q) <= 1
                       /\ TaskOver(j) => task[j] # "pending"
                       /\ (pc \in {"stop", "sleep", "login", "panic"}) => Len(q) = 1
                       /\ (q # <<>> /\ q[1].ok) =>
                              q[1].n = Cardinality({id \in RecIds :
                                                       sfCreated[id] > wmStart[j].t})

\* the query of the first type failed and the second type was processed in
\* the same cycle and advanced its watermark
C11_Witness ==
    /\ pc = "sleep"
    /\ task[1] = "queryerr"
    /\ task[2] = "complete"
    /\ LatestTimestamp[2] # wmStart[2]
    /\ TypeCalls(2, {"send"}) # <<>>

\* C14: once the record fetch or the log-file fetch and flattening of the
\* k-th record of a type has failed, the cycle makes no Send for record k and
\* no call for a later record of the type, records 1..k-1 are delivered, and
\* the watermark is the creation timestamp of record k-1, set by that record
\* (its value at the start of the cycle when k = 1).
C14_FailureBeforeDelivery ==
    \A i \in TypeIdx :
        LET calls == TypeCalls(i, {"get", "fetch", "send"})
        IN  \A j \in DOMAIN calls :
                (calls[j].op \in {"get", "fetch"} /\ ~calls[j].ok) =>
                    LET k == calls[j].idx
                    IN  /\ j = Len(calls)
                        /\ \A h \in DOMAIN calls :
                               /\ calls[h].idx <= k
                               /\ calls[h].op = "send" => (calls[h].idx < k /\ calls[h].ok)
                        /\ \A h \in 1..(k - 1) : Delivered(i, h)
                        /\ wmIdx[i] = k - 1
                        /\ LatestTimestamp[i] =
                               IF k = 1 THEN wmStart[i] ELSE CreatedOf(i, k - 1)
                        /\ task[i] = "failed"

\* the cycle is over; the log file of the second record of a batch could not
\* be parsed after the first record was delivered
C14_Witness ==
    /\ pc = "sleep"
    /\ \E i \in TypeIdx :
          /\ Len(batch[i]) >= 2
          /\ Calls("fetch", i, 2) # <<>>
          /\ ~Calls("fetch", i, 2)[1].ok
          /\ Calls("fetch", i, 2)[1].data = BodyShortRow
          /\ Calls("send", i, 1) # <<>>
          /\ LatestTimestamp[i] = CreatedOf(i, 1)

\* the task of a type has returned
Finished(i) == task[i] \in {"queryerr", "empty", "complete", "failed"}

\* the loop over the types is over in this cycle
TasksOver == pc \in {"stop", "sleep", "login", "panic"}

\* only the task of the type the loop is at runs; the tasks of the types
\* before it have returned, those of the types after it have not started and
\* have made no call; the calls of the cycle are in the order of the types
OneTaskRunning ==
    /\ \A i \in TypeIdx :
          /\ task[i] = "running" => (ti = i /\ pc \in {"record", "enrich", "send"})
          /\ (i < ti \/ TasksOver) => Finished(i)
          /\ (i > ti /\ ~TasksOver) =>
                 (task[i] = "pending" /\ TypeCalls(i, {"query", "get", "fetch", "send"}) = <<>>)
    /\ Cardinality({i \in TypeIdx : task[i] = "running"}) <= 1
    /\ \A j, h \in DOMAIN log :
          (j < h /\ log[j].ty # 0 /\ log[h].ty # 0) => log[j].ty <= log[h].ty

\* a step that changes the watermark of a type is a step of the running task
\* of that type, and changes no other watermark
OwnWatermarkOnly ==
    \A i \in TypeIdx :
        LatestTimestamp'[i] # LatestTimestamp[i] =>
            /\ ti = i
            /\ task[i] = "running"
            /\ \A j \in TypeIdx \ {i} : LatestTimestamp'[j] = LatestTimestamp[j]

TaskOps == {"query", "get", "fetch", "send"}

\* how many entries of one kind the history of the cycle holds
CountOf(op) == Len(SelectSeq(log, LAMBDA e : e.op = op))

\* the history of a cycle: the login that opened it (from the second cycle
\* on), the calls of the tasks, Stop once, the sleep, the failed login
CycleOrdered ==
    /\ \A j \in DOMAIN log :
          /\ (log[j].op = "login" /\ log[j].ok) => (j = 1 /\ cycle > 1)
          /\ log[j].op \in TaskOps =>
                 \A h \in 1..(j - 1) :
                     log[h].op \in TaskOps \/ (h = 1 /\ log[h].op = "login")
          /\ log[j].op = "stop" =>
                 /\ \A h \in 1..(j - 1) :
                        log[h].op \in TaskOps \/ (h = 1 /\ log[h].op = "login")
                 /\ \A i \in TypeIdx :
                        Finished(i) /\ Len(TypeCalls(i, {"query"})) = 1
          /\ log[j].op = "sleep" => (j > 1 /\ log[j - 1].op = "stop")
          /\ (log[j].op = "login" /\ ~log[j].ok) =>
                 (j = Len(log) /\ j > 1 /\ log[j - 1].op = "sleep")
    /\ CountOf("stop") = IF pc \in {"sleep", "login", "panic"} THEN 1 ELSE 0
    /\ CountOf("sleep") = IF pc \in {"login", "panic"} THEN 1 ELSE 0
    /\ CountOf("login") = (IF cycle > 1 THEN 1 ELSE 0) + (IF pc = "panic" THEN 1 ELSE 0)
    /\ cycle > 1 => (log # <<>> /\ log[1].op = "login" /\ log[1].ok)

\* a new cycle begins only by the login that follows the Stop and the sleep
\* of the cycle before, and begins with the task of the first type
NewCycleAfterLogin ==
    cycle' # cycle =>
        /\ pc = "login"
        /\ Len(log) >= 2
        /\ log[Len(log)].op = "sleep"
        /\ log[Len(log) - 1].op = "stop"
        /\ cycle' = cycle + 1
        /\ log' = <<MainEntry("login", TRUE)>>
        /\ pc' = "query"
        /\ ti' = 1

\* C17: in every cycle all tasks return, then Stop is called exactly once
\* (whatever the tasks' outcomes), then the loop sleeps, then the session is
\* refreshed once, and only then the first query of the next cycle is made;
\* no login lies between the first query of a cycle and its Stop.
C17_CycleOrder == []CycleOrdered /\ [][NewCycleAfterLogin]_vars

\* the second cycle, opened by a login, has called Stop after the task of the
\* first type failed and the query of the second type failed
C17_Witness ==
    /\ cycle = 2
    /\ pc = "sleep"
    /\ log[1].op = "login"
    /\ task[1] = "failed"
    /\ task[2] = "queryerr"
    /\ log[Len(log)].op = "stop"

\* a failed login is the last call of the process: it follows the sleep, the
\* process has stopped, and the login was made once
LoginFailureStops ==
    /\ \A j \in DOMAIN log :
          (log[j].op = "login" /\ ~log[j].ok) => (pc = "panic" /\ j = Len(log))
    /\ pc = "panic" =>
          /\ Len(log) >= 3
          /\ log[Len(log)].op = "login"
          /\ ~log[Len(log)].ok
          /\ log[Len(log) - 1].op = "sleep"
          /\ log[Len(log) - 2].op = "stop"
          /\ Len(SelectSeq(log, LAMBDA e : e.op = "login" /\ ~e.ok)) = 1

\* the stopped process makes no step: no call, no new cycle, no new watermark
StoppedForGood ==
    pc = "panic" =>
        /\ pc' = "panic"
        /\ log' = log
        /\ cycle' = cycle
        /\ LatestTimestamp' = LatestTimestamp

\* C18: when the login after a cycle fails the process stops: the failed
\* login is its last call, no cycle starts after it, no query, fetch or Send
\* is made, and the login is not made again.
C18_LoginFailureStopsProcess == []LoginFailureStops /\ [][StoppedForGood]_vars

\* the login after the first cycle failed, after a record was delivered
C18_Witness ==
    /\ pc = "panic"
    /\ cycle = 1
    /\ ~log[Len(log)].ok
    /\ \E i \in TypeIdx : task[i] = "complete"

\* the spellings of the log-bearing type, written out by hand
LogBearingNames == {"eventlogfile", "EventLogFile", "EVENTLOGFILE", "eventLogFile"}

\* C19: a log-file fetch is made for a record exactly when the name of its
\* type is a spelling of "eventlogfile": such a record, once fetched, goes
\* through the log-file fetch before any Send; a record of another type gets
\* no log-file fetch and at most one Send, which carries the record's fields,
\* and exactly one, successful, once the record is done.
C19_OnlyEventLogFileExpanded ==
    \A i \in TypeIdx : \A k \in DOMAIN batch[i] :
        LET gets == Calls("get", i, k)
            fetches == Calls("fetch", i, k)
            sends == Calls("send", i, k)
            id == batch[i][k]
        IN  IF SObjectTypes[i] \in LogBearingNames
            THEN /\ Len(fetches) <= 1
                 /\ (gets # <<>> /\ gets[1].ok /\ ~(ti = i /\ ri = k /\ pc = "enrich"))
                        => Len(fetches) = 1
                 /\ fetches # <<>> => (gets # <<>> /\ gets[1].ok)
                 /\ sends # <<>> => (fetches # <<>> /\ fetches[1].ok)
            ELSE /\ fetches = <<>>
                 /\ Len(sends) <= 1
                 /\ sends # <<>> =>
                        /\ gets # <<>>
                        /\ gets[1].ok
                        /\ Unmarshal(sends[1].data) =
                               RecordFields(SObjectTypes[i], id, sfCreated[id])
                 /\ (gets # <<>> /\ gets[1].ok /\ ~(ti = i /\ ri = k /\ pc = "send"))
                        => Len(sends) = 1
                 /\ wmIdx[i] >= k => (Len(sends) = 1 /\ sends[1].ok)

\* in one cycle a record of the log-bearing type went through the log-file
\* fetch and a record of the other type was done with one Send
C19_Witness ==
    \E i, j \in TypeIdx :
        /\ SObjectTypes[i] \in LogBearingNames
        /\ SObjectTypes[i] # EventLogFileSObjectName
        /\ Calls("fetch", i, 1) # <<>>
        /\ SObjectTypes[j] \notin LogBearingNames
        /\ wmIdx[j] >= 1
        /\ Len(Calls("send", j, 1)) = 1
        /\ Calls("fetch", j, 1) = <<>>

\* the Sends of a record are numbered from row 1 on; when one after the first
\* has failed it is the last Send of the record, the Sends before it
\* succeeded, and the record has not set the watermark
PartialDelivery ==
    \A i \in TypeIdx : \A k \in DOMAIN batch[i] :
        LET sends == Calls("send", i, k)
        IN  /\ \A r \in DOMAIN sends : sends[r].n = r
            /\ \A r \in DOMAIN sends :
                   (r > 1 /\ ~sends[r].ok) =>
                       /\ IsEventLogFile(SObjectTypes[i])
                       /\ r = Len(sends)
                       /\ \A q \in 1..(r - 1) : sends[q].ok
                       /\ wmIdx[i] < k
                       /\ unsent[i] = batch[i][k]

\* the query of type i is answered in this step
QueryAnswered(i) ==
    /\ pc = "query"
    /\ ti = i
    /\ Len(log') = Len(log) + 1
    /\ log'[Len(log')].op = "query"
    /\ log'[Len(log')].ok

\* the next answered query of the type returns the record of which a Send
\* after the first had failed
Refetched ==
    \A i \in TypeIdx :
        (unsent[i] # 0 /\ QueryAnswered(i)) =>
            \E k \in DOMAIN batch'[i] : batch'[i][k] = unsent[i]

\* C20: when the Send of the k-th event (k > 1) of a log-bearing record
\* fails, events 1..k-1 were sent with success, no later event is sent, the
\* record does not set the watermark, and the next answered query of its type
\* returns the record again (its Sends then start again from row 1).
C20_FailedRecordRedelivered == []PartialDelivery /\ [][Refetched]_vars

\* log files without a data row
NoRowFiles == {BodyHeaderOnly, BodyEmpty}

\* C21: a log-bearing record whose log file was fetched and flattened with
\* success and has no data row gets no Send; it sets the watermark of its type
\* to its creation timestamp, and the task goes on to the next record of the
\* batch (it completes when the record is the last one).
C21_NoRowsStillAdvance ==
    \A i \in TypeIdx : \A k \in DOMAIN batch[i] :
        LET fetches == Calls("fetch", i, k)
        IN  (fetches # <<>> /\ fetches[1].ok /\ fetches[1].data \in NoRowFiles) =>
                /\ Calls("send", i, k) = <<>>
                /\ wmIdx[i] >= k
                /\ wmIdx[i] = k => LatestTimestamp[i] = CreatedOf(i, k)
                /\ IF k < Len(batch[i])
                   THEN \/ ti = i /\ ri = k + 1 /\ pc = "record"
                        \/ Calls("get", i, k + 1) # <<>>
                   ELSE task[i] = "complete"

\* the first record of a batch had an empty log file: nothing was sent for
\* it, it set the watermark, and the second record was fetched
C21_Witness ==
    \E i \in TypeIdx :
        /\ Len(batch[i]) >= 2
        /\ Calls("fetch", i, 1) # <<>>
        /\ Calls("fetch", i, 1)[1].ok
        /\ Calls("fetch", i, 1)[1].data = BodyEmpty
        /\ Calls("send", i, 1) = <<>>
        /\ wmIdx[i] = 1
        /\ LatestTimestamp[i] = CreatedOf(i, 1)
        /\ LatestTimestamp[i] # wmStart[i]
        /\ Calls("get", i, 2) # <<>>

\* collect() is running: a task is at work, or Stop is about to be called
InCollect == pc \in {"query", "record", "enrich", "send", "stop"}

\* Stop has returned and nothing else has happened since
Flushed == pc = "sleep" /\ log # <<>> /\ log[Len(log)].op = "stop"

\* the work of a cycle is bounded by what its queries returned: one query per
\* type, every record of a batch taken at most once, with at most one log-file
\* fetch of at most Attempts attempts and at most one Send per event
CycleBounded ==
    /\ \A i \in TypeIdx :
          /\ Len(TypeCalls(i, {"query"})) <= 1
          /\ Len(TypeCalls(i, {"get"})) <= Len(batch[i])
          /\ \A k \in DOMAIN batch[i] :
                 /\ Len(Calls("get", i, k)) <= 1
                 /\ Len(Calls("fetch", i, k)) <= 1
                 /\ Calls("send", i, k) # <<>> =>
                        Len(Calls("send", i, k)) <=
                            EventCount(i, Calls("fetch", i, k))
    /\ \A j \in DOMAIN log :
          /\ log[j].op \in {"get", "fetch", "send"} =>
                 log[j].idx \in DOMAIN batch[log[j].ty]
          /\ log[j].op = "fetch" => log[j].n \in 1..Attempts

\* C22: when every call of collect() returns, every cycle ends: a task takes
\* each record of the batch it fetched at most once, a log-file fetch makes at
\* most 3 attempts, and from every point of a cycle, whatever succeeded or
\* failed, Stop is called and returns.
C22_CycleTerminates == []CycleBounded /\ (InCollect ~> Flushed)

\* a cycle with a delivered record, a log-file fetch given up after 3 failed
\* attempts and a failed query has called Stop
C22_Witness ==
    /\ Flushed
    /\ \E i \in TypeIdx :
          /\ task[i] = "failed"
          /\ Len(batch[i]) >= 2
          /\ Delivered(i, 1)
          /\ Calls("fetch", i, 2) # <<>>
          /\ ~Calls("fetch", i, 2)[1].ok
          /\ Calls("fetch", i, 2)[1].n = Attempts
    /\ \E i \in TypeIdx : task[i] = "queryerr"

\* ------------------------------------------- getFileContent as a function
\* the loop's variables, at rest, in the function specifications
LoopIdle ==
    /\ LoopInit
    /\ customFields = NoCustomFields
    /\ sfCreated = [id \in RecIds |-> 1]

\* what the server may answer to one attempt
FetchResponses ==
    { Response(200, BodyOneRow, TRUE), Response(200, BodyHeaderOnly, TRUE),
      Response(200, BodyOneRow, FALSE),
      Response(301, BodyNotFound, TRUE),
      Response(404, BodyNotFound, TRUE), Response(404, BodyEcho, TRUE),
      Response(500, BodyNotFound, TRUE), Response(503, BodyEcho, TRUE),
      TransportError }

\* the server's answers to attempts 1, 2 and 3
FetchScripts == [1..Attempts -> FetchResponses]

InitFetch ==
    /\ LoopIdle
    /\ arg \in FetchScripts
    /\ res = NoResult

\* slr.getFileContent(apiPath) against the server arg
FetchFile ==
    /\ ~res.done
    /\ res' = [done |-> TRUE, out |-> getFileContent(arg)]
    /\ UNCHANGED <<loopVars, arg>>

NextFetch == FetchFile

SpecFetch == InitFetch /\ [][NextFetch]_vars

Is2xx(resp) == resp.status >= 200 /\ resp.status <= 299

Is5xx(resp) == resp.status >= 500 /\ resp.status <= 599

\* C8: a fetch makes at most 3 attempts; 5xx, 5xx, 2xx succeeds after exactly
\* 3 attempts with the third answer's body; 5xx three times fails after
\* exactly 3 attempts.
C8_ThreeAttempts ==
    res.done =>
        /\ res.out.attempts >= 1
        /\ res.out.attempts <= 3
        /\ (Is5xx(arg[1]) /\ Is5xx(arg[2]) /\ Is2xx(arg[3]) /\ arg[3].readOk) =>
               /\ ~res.out.err
               /\ res.out.attempts = 3
               /\ res.out.content = arg[3].body
        /\ (Is5xx(arg[1]) /\ Is5xx(arg[2]) /\ Is5xx(arg[3])) =>
               /\ res.out.err
               /\ res.out.attempts = 3
               /\ res.out.content = <<>>

\* the fetch of a server answering 5xx, 5xx, 2xx has succeeded
C8_Witness ==
    /\ res.done
    /\ Is5xx(arg[1]) /\ Is5xx(arg[2]) /\ Is2xx(arg[3])
    /\ ~res.out.err
    /\ res.out.attempts = 3
    /\ res.out.content = BodyOneRow

\* text t holds the tokens of u in a row
Contains(t, u) ==
    \E p \in 0..(Len(t) - Len(u)) : \A j \in DOMAIN u : t[p + j] = u[j]

\* C9: a fetch whose first attempt fails with anything but a 5xx status fails
\* after exactly one attempt and returns no content; for a non-2xx answer the
\* error holds the status code and the body.
C9_NoRetryUnless5xx ==
    (res.done /\ (arg[1].status = 0 \/ (~Is2xx(arg[1]) /\ ~Is5xx(arg[1])))) =>
        /\ res.out.err
        /\ res.out.attempts = 1
        /\ res.out.content = <<>>
        /\ arg[1].status # 0 =>
               /\ Contains(res.out.errs[1],
                           <<Digits[(arg[1].status \div 100) + 1],
                             Digits[((arg[1].status \div 10) % 10) + 1],
                             Digits[(arg[1].status % 10) + 1]>>)
               /\ Contains(res.out.errs[1], arg[1].body)

\* ------------------------------------------------ flattening as a function
\* the header line and the data lines of the log files given to the
\* flattening: two full rows and one with a single column
FlattenHeader == <<"a", ",", "b">>

FlattenRows == {<<"1", ",", "2">>, <<"3", ",", "4">>, <<"1">>}

Newlines(n) == [i \in 1..n |-> NL]

RECURSIVE FlattenLines(_)
\* n data lines, each after 1..MaxNewlines newlines: the lines and their text
FlattenLines(n) ==
    IF n = 0 THEN {[rows |-> <<>>, text |-> <<>>]}
    ELSE {[rows |-> Append(l.rows, r), text |-> l.text \o Newlines(k) \o r] :
             l \in FlattenLines(n - 1), k \in 1..MaxNewlines, r \in FlattenRows}

\* log files: the header, up to MaxRows data lines, up to MaxNewlines newlines
\* at the end
FlattenContents ==
    {[rows |-> l.rows, text |-> FlattenHeader \o l.text \o Newlines(k)] :
        l \in UNION {FlattenLines(n) : n \in 0..MaxRows}, k \in 0..MaxNewlines}

InitFlatten ==
    /\ LoopIdle
    /\ arg \in FlattenContents
    /\ res = NoResult

\* the flattening of getEventLogFileContent applied to the content arg.text
Flatten ==
    /\ ~res.done
    /\ res' = [done |-> TRUE, out |-> ParseLogFileContent(arg.text)]
    /\ UNCHANGED <<loopVars, arg>>

NextFlatten == Flatten

SpecFlatten == InitFlatten /\ [][NextFlatten]_vars

\* the row-map of a data line with both columns, written out by hand
FullRowMap(r) == (<<"a">> :> <<r[1]>>) @@ (<<"b">> :> <<r[3]>>)

\* C12: content made of the header and data rows that all have both columns,
\* the lines separated by single or doubled newlines, flattens without error
\* to exactly one row-map per data row, in order, each with both header keys.
C12_DoubledNewlinesCollapsed ==
    (res.done /\ \A i \in DOMAIN arg.rows : Len(arg.rows[i]) = 3) =>
        /\ ~res.out.err
        /\ Len(res.out.logEvents) = Len(arg.rows)
        /\ \A i \in DOMAIN arg.rows : res.out.logEvents[i] = FullRowMap(arg.rows[i])

\* "a,b\n1,2\n\n3,4\n" was flattened to two row-maps
C12_Witness ==
    /\ res.done
    /\ arg.text = BodyTwoRows
    /\ ~res.out.err
    /\ Len(res.out.logEvents) = 2

\* the row-map of a data line with the first column only, written out by hand
ShortRowMap(r) == (<<"a">> :> <<r[1]>>)

\* C15: content in which a data row has fewer columns than the header is
\* flattened without error to one row-map per data row, the short row's map
\* holding only the header keys of the columns that are present.
C15_ShortRowPartialMap ==
    (res.done /\ \E i \in DOMAIN arg.rows : Len(arg.rows[i]) = 1) =>
        /\ ~res.out.err
        /\ Len(res.out.logEvents) = Len(arg.rows)
        /\ \A i \in DOMAIN arg.rows :
               res.out.logEvents[i] =
                   IF Len(arg.rows[i]) = 1 THEN ShortRowMap(arg.rows[i])
                   ELSE FullRowMap(arg.rows[i])

\* ------------------------------------ NewSalesforceLogsReceiver as a function
\* a timestamp string handed to the constructor: empty, or a date and time of
\* instant t written with or without the milliseconds and with a zone suffix
EmptyString == [empty |-> TRUE, t |-> 0, zone |-> "", millis |-> FALSE]

TimestampString(t, zone, millis) ==
    [empty |-> FALSE, t |-> t, zone |-> zone, millis |-> millis]

\* time.Parse("2006-01-02T15:04:05.000Z", ts) returns no error
ParseInLayout(ts) == ~ts.empty /\ ts.millis /\ ts.zone = "Z"

\* time.Now().Add(-time.Hour * 1).Format("2006-01-02T15:04:05.000Z"): the
\* wall clock of the process's local zone, an hour back, followed by the
\* letter Z of the layout (the unit of t is the hour here)
currentTimeMinusOneHour(now, zoneOffset) ==
    TimestampString(now + zoneOffset - 1, "Z", TRUE)

RECURSIVE CheckSObjects(_, _, _)
\* the loop over sObjects from index i on: the first empty type name or
\* unparsable timestamp returns the error; an empty timestamp is replaced
CheckSObjects(sObjects, i, default) ==
    IF i > Len(sObjects) THEN [err |-> FALSE, sObjects |-> sObjects]
    ELSE IF sObjects[i].SObjectType = "" THEN [err |-> TRUE, sObjects |-> sObjects]
    ELSE IF sObjects[i].LatestTimestamp.empty
         THEN CheckSObjects([sObjects EXCEPT ![i].LatestTimestamp = default],
                            i + 1, default)
    ELSE IF ~ParseInLayout(sObjects[i].LatestTimestamp)
         THEN [err |-> TRUE, sObjects |-> sObjects]
    ELSE CheckSObjects(sObjects, i + 1, default)

\* NewSalesforceLogsReceiver: rec is <<>> for nil, <<receiver>> otherwise
\* (simpleforce.NewClient always returns a client)
NewSalesforceLogsReceiver(a) ==
    IF a.clientID = "" \/ a.username = "" \/ a.password = "" \/ a.securityToken = ""
    THEN [err |-> TRUE, rec |-> <<>>]
    ELSE IF Len(a.sObjects) = 0 THEN [err |-> TRUE, rec |-> <<>>]
    ELSE LET c == CheckSObjects(a.sObjects, 1,
                                currentTimeMinusOneHour(a.now, a.zoneOffset))
         IN  IF c.err THEN [err |-> TRUE, rec |-> <<>>]
             ELSE [err |-> FALSE,
                   rec |-> <<[SObjects |-> c.sObjects,
                              username |-> a.username,
                              password |-> a.password,
                              securityToken |-> a.securityToken]>>]

\* the strings of the configuration: a credential is empty or not
Credentials == {"", "secret"}

TypeNames == {"", "Account", "EventLogFile"}

\* FROM_TIMESTAMP: unset, well formed, with the zone of the remote API, or
\* without milliseconds
TimestampInputs ==
    {EmptyString, TimestampString(0, "Z", TRUE), TimestampString(0, "+0000", TRUE),
     TimestampString(0, "Z", FALSE)}

\* the local zone of the process: UTC, or an hour ahead
ZoneOffsets == {0, 1}

NewInputs ==
    [clientID : Credentials, username : Credentials, password : Credentials,
     securityToken : Credentials,
     sObjects : UNION {[1..n -> [SObjectType : TypeNames,
                                 LatestTimestamp : TimestampInputs]] :
                          n \in 0..NumTypes},
     now : Times, zoneOffset : ZoneOffsets]

InitNew ==
    /\ LoopIdle
    /\ arg \in NewInputs
    /\ res = NoResult

\* receiver.NewSalesforceLogsReceiver(...) with the arguments arg
New ==
    /\ ~res.done
    /\ res' = [done |-> TRUE, out |-> NewSalesforceLogsReceiver(arg)]
    /\ UNCHANGED <<loopVars, arg>>

NextNew == New

SpecNew == InitNew /\ [][NextNew]_vars

\* a string is written in the format 2006-01-02T15:04:05.000Z
InFormat(ts) == ~ts.empty /\ ts.millis /\ ts.zone = "Z"

\* the arguments a for which the construction must fail
NewMustFail(a) ==
    \/ a.clientID = ""
    \/ a.username = ""
    \/ a.password = ""
    \/ a.securityToken = ""
    \/ a.sObjects = <<>>
    \/ \E i \in DOMAIN a.sObjects : a.sObjects[i].SObjectType = ""
    \/ \E i \in DOMAIN a.sObjects :
           ~a.sObjects[i].LatestTimestamp.empty /\ ~InFormat(a.sObjects[i].LatestTimestamp)

\* C13: the construction fails and returns no receiver when a credential is
\* empty, the list of types is empty, a type name is empty or a non-empty
\* timestamp is not in the format; otherwise it succeeds, the targets are the
\* configured types in order, and every target holds a watermark in the
\* format: the supplied timestamp, or the instant one hour before the current
\* time when none was supplied.
C13_ConstructorValidation ==
    res.done =>
        IF NewMustFail(arg)
        THEN res.out.err /\ res.out.rec = <<>>
        ELSE /\ ~res.out.err
             /\ Len(res.out.rec) = 1
             /\ LET targets == res.out.rec[1].SObjects
                IN  /\ Len(targets) = Len(arg.sObjects)
                    /\ \A i \in DOMAIN targets :
                           /\ targets[i].SObjectType = arg.sObjects[i].SObjectType
                           /\ InFormat(targets[i].LatestTimestamp)
                           /\ targets[i].LatestTimestamp =
                                  IF arg.sObjects[i].LatestTimestamp.empty
                                  THEN TimestampString(arg.now - 1, "Z", TRUE)
                                  ELSE arg.sObjects[i].LatestTimestamp

\* --------------------------------------------- event assembly as a function
\* records as record.Get returns them: Id and CreatedDate, with or without a
\* Name, with or without a field called env
AssembleFields ==
    { [key \in {"Id", "CreatedDate"} \cup (IF name THEN {"Name"} ELSE {})
                \cup (IF env = "none" THEN {} ELSE {"env"}) |->
          CASE key = "Id" -> <<"r", id>>
            [] key = "CreatedDate" -> RemoteCreatedDate(t)
            [] key = "Name" -> <<"acme">>
            [] OTHER -> <<env>>] :
      id \in RecIds, t \in Times, name \in BOOLEAN, env \in {"none", "crm", "prod"} }

TeamCustomFields == [team |-> <<"blue">>]

EnvTeamCustomFields == [env |-> <<"prod">>, team |-> <<"blue">>]

InitAssemble ==
    /\ LoopIdle
    /\ \E f \in AssembleFields :
          \/ arg = [fields |-> f, customFields |-> NoCustomFields]
          \/ arg = [fields |-> f, customFields |-> EnvCustomFields]
          \/ arg = [fields |-> f, customFields |-> TeamCustomFields]
          \/ arg = [fields |-> f, customFields |-> EnvTeamCustomFields]
    /\ res = NoResult

\* slr.CollectSObjectRecord(record) of a receiver configured with
\* arg.customFields, for the record arg.fields
Assemble ==
    /\ ~res.done
    /\ res' = [done |-> TRUE, out |-> CollectSObjectRecord(arg.fields, arg.customFields)]
    /\ UNCHANGED <<loopVars, arg>>

NextAssemble == Assemble

SpecAssemble == InitAssemble /\ [][NextAssemble]_vars

\* C10: with custom fields configured, the assembled event holds every
\* configured key with its configured value (overriding a record field of the
\* same key); with none configured, the event is exactly the record's fields.
C10_CustomFieldsInEvent ==
    res.done =>
        LET event == Unmarshal(res.out.jsonData)
        IN  IF DOMAIN arg.customFields = {}
            THEN event = arg.fields
            ELSE \A k \in DOMAIN arg.customFields :
                     k \in DOMAIN event /\ event[k] = arg.customFields[k]

====
